---- MODULE Spec2Model ----
(***************************************************************************)
(* Model of backend/main.py: the PDF upload handler (upload_pdf), the      *)
(* WebSocketManager and the websocket_endpoint read loop, as cooperative    *)
(* coroutines that interleave at their await points.                        *)
(*                                                                          *)
(* Python objects with identity are kept in a heap: every upload request    *)
(* builds at most one session dict (line 77), so the dict (and the          *)
(* chat_history list, vectorstore and conversation chain inside it) is      *)
(* identified by the request that built it.  `sessions` maps a session id   *)
(* to the dict it currently refers to.                                      *)
(***************************************************************************)
EXTENDS Naturals, Sequences, FiniteSets, TLC

\* ------------------------------------------------------------------ bounds

\* Total number of inbound text frames the connections read (line 144).
MaxQuestions == 2

\* Number of requests (uploads and WebSocket connections together) served.
MaxRequests == 3

\* ------------------------------------------------------------ finite domains

SessionIds == {"s1", "s2"}
Uploads    == {"u1", "u2"}      \* upload requests; also the uuid4 of line 55
Conns      == {"c1", "c2"}      \* WebSocket objects
\* Upload requests, connections, session ids and question texts are named in
\* the order in which they first appear.
Earlier(x) ==
    IF x = "u2" THEN {"u1"} ELSE IF x = "c2" THEN {"c1"} ELSE IF x = "s2" THEN {"s1"} ELSE {}
Questions  == {"q1", "q2"}      \* inbound text frames
Errors     == {"boom"}          \* str(e) of a raised exception

\* File names as character sequences, so that endswith is computed.
Filenames ==
    { <<"a", ".", "p", "d", "f">>,
      <<"a", ".", "t", "x", "t">>,
      <<"p", "d", "f">> }

PdfExt == <<".", "p", "d", "f">>

NoEntry   == "NoEntry"      \* session_id not in sessions
NoConn    == "NoConn"       \* session_id not in active_connections
NoValue   == "NoValue"      \* unset local variable
NoSummary == <<"<no document_summary key>">>   \* key absent from the dict
Unset     == <<"<unset>">>                     \* unset text-valued local

\* ------------------------------------------------------------------ texts

\* line 120
Greeting == <<"Hello! I've processed your PDF. Here is a summary:">>

\* line 149
NoSessionError ==
    <<"Error: No document uploaded for this session. Please upload a PDF first.">>

\* lines 96-98: output_text of the summary chain over upload u's documents
SummaryOf(u) == <<"summary of", u>>

\* lines 162-163: the chain of upload u answering question q
AnswerOf(u, q) == <<"answer", u, q>>

\* line 165
SyntheticAnswer(e) == <<"Error getting AI response: ", e, ". Please try again.">>

\* line 175
Diagnostic(e) == <<"An unexpected error occurred: ", e>>

\* ------------------------------------------------------------------ state

VARIABLES
    sessions,            \* line 40: session id -> dict (by identity) or NoEntry
    heap,                \* the session dicts built so far (line 77), by builder
    files,               \* the files under UPLOAD_DIR
    upPc,                \* upload request: "idle" | "summarizing" | "done"
    upSid,               \* upload request: session_id
    upFile,              \* upload request: file.filename
    upResp,              \* upload request: HTTP status returned (0 = none yet)
    active_connections,  \* line 112: session id -> WebSocket or NoConn
    wsPc,                \* endpoint position of each connection
    wsSid,               \* endpoint: session_id
    wsOpen,              \* whether the peer of the connection is still there
    wsData,              \* endpoint local: data / user_message
    wsSession,           \* endpoint local: session_data (a dict, by identity)
    wsSeen,              \* summary text the connect check of line 119 saw
    wsPrev,              \* turn sequence under sessions[S] when data was read
    wsResult,            \* how the last chain call of line 162 ended
    inbox,               \* text frames delivered to each connection's peer
    nRecv                \* number of text frames each connection has read

vars ==
    << sessions, heap, files, upPc, upSid, upFile, upResp,
       active_connections, wsPc, wsSid, wsOpen, wsData, wsSession,
       wsSeen, wsPrev, wsResult, inbox, nRecv >>

upVars == << upPc, upSid, upFile, upResp >>
wsLocals == << wsSid, wsData, wsSession, wsSeen, wsPrev, wsResult >>

\* ---------------------------------------------------------------- helpers

\* The requests that have arrived so far, and the session ids they named
Arrived == { u \in Uploads : upPc[u] # "idle" } \cup { c \in Conns : wsPc[c] # "idle" }
UsedSessionIds ==
    { upSid[u] : u \in { x \in Uploads : upPc[x] # "idle" } }
        \cup { wsSid[c] : c \in { x \in Conns : wsPc[x] # "idle" } }

\* str.endswith with the dot of the suffix forgotten: endswith("pdf")
EndsWithNoDot(s, suffix) ==
    /\ Len(s) >= Len(suffix) - 1
    /\ SubSeq(s, Len(s) - Len(suffix) + 2, Len(s)) = Tail(suffix)

\* str.endswith (line 52)
EndsWith(s, suffix) ==
    /\ Len(s) >= Len(suffix)
    /\ SubSeq(s, Len(s) - Len(suffix) + 1, Len(s)) = suffix

\* line 55: os.path.join(UPLOAD_DIR, f"{session_id}_{uuid.uuid4()}.pdf")
FileLocation(s, u) == << s, u >>

\* a dict literal that starts with the flag already set
NewSessionFlagged(s, u) ==
    [ doc_path           |-> FileLocation(s, u),
      vectorstore        |-> u,
      conversation_chain |-> u,
      chat_history       |-> << >>,
      summary_generated  |-> TRUE,
      document_summary   |-> NoSummary ]

\* lines 77-83: the dict literal
NewSession(s, u) ==
    [ doc_path           |-> FileLocation(s, u),
      vectorstore        |-> u,
      conversation_chain |-> u,
      chat_history       |-> << >>,
      summary_generated  |-> FALSE,
      document_summary   |-> NoSummary ]

\* A cleanup that removes by session id: every stored file of the session
CleanupSession(fs, loc) == { f \in fs : f[1] # loc[1] }

\* lines 106-107: remove the file if it exists
Cleanup(fs, loc) == IF loc \in fs THEN fs \ {loc} ELSE fs

Turn(role, content) == [ role |-> role, content |-> content ]

\* line 119: session_id in sessions and "document_summary" in sessions[session_id]
HasSummary(s) ==
    /\ sessions[s] # NoEntry
    /\ heap[sessions[s]].document_summary # NoSummary

\* The turn sequence found under sessions[s]
HistoryOf(s) == IF sessions[s] = NoEntry THEN << >> ELSE heap[sessions[s]].chat_history

\* ------------------------------------------------------------------- init

Init ==
    /\ sessions = [ s \in SessionIds |-> NoEntry ]
    /\ heap = [ u \in {} |-> NoValue ]
    /\ files = {}
    /\ upPc = [ u \in Uploads |-> "idle" ]
    /\ upSid = [ u \in Uploads |-> NoValue ]
    /\ upFile = [ u \in Uploads |-> << >> ]
    /\ upResp = [ u \in Uploads |-> 0 ]
    /\ active_connections = [ s \in SessionIds |-> NoConn ]
    /\ wsPc = [ c \in Conns |-> "idle" ]
    /\ wsSid = [ c \in Conns |-> NoValue ]
    /\ wsOpen = [ c \in Conns |-> FALSE ]
    /\ wsData = [ c \in Conns |-> NoValue ]
    /\ wsSession = [ c \in Conns |-> NoValue ]
    /\ wsSeen = [ c \in Conns |-> Unset ]
    /\ wsPrev = [ c \in Conns |-> << >> ]
    /\ wsResult = [ c \in Conns |-> NoValue ]
    /\ inbox = [ c \in Conns |-> << >> ]
    /\ nRecv = [ c \in Conns |-> 0 ]

\* ------------------------------------------------------------ upload_pdf

\* Where the synchronous part of the try block (lines 57-92) can raise.
\* "none": nothing raises and the coroutine suspends at line 96.
FailPoints == { "open", "copy", "load", "split", "index", "chain", "prompt", "none" }

\* Whether open() of line 57 created the file before the failure.
FileWritten(failAt) == failAt # "open"

\* Whether line 77 was executed before the failure.
ReachedRegister(failAt) == failAt \in { "prompt", "none" }

\* lines 77-83: sessions[session_id] = {...}
RegisterSession(u, s) ==
    /\ sessions' = [ sessions EXCEPT ![s] = u ]
    /\ heap' = (u :> NewSession(s, u)) @@ heap

\* lines 105-108: the except clause
UploadExcept(u, fs, file_location) ==
    /\ files' = Cleanup(fs, file_location)
    /\ upResp' = [ upResp EXCEPT ![u] = 500 ]
    /\ upPc' = [ upPc EXCEPT ![u] = "done" ]

\* lines 51-96: the request up to its first suspension (or its early end)
UploadStart(u, s, f, failAt) ==
    /\ upPc[u] = "idle"
    /\ \A x \in Earlier(u) : upPc[x] # "idle"
    /\ Cardinality(Arrived) < MaxRequests
    /\ Earlier(s) \subseteq UsedSessionIds
    /\ upSid' = [ upSid EXCEPT ![u] = s ]
    /\ upFile' = [ upFile EXCEPT ![u] = f ]
    /\ IF ~EndsWith(f, PdfExt)
       THEN \* lines 52-53
            /\ upResp' = [ upResp EXCEPT ![u] = 400 ]
            /\ upPc' = [ upPc EXCEPT ![u] = "done" ]
            /\ UNCHANGED << sessions, heap, files >>
       ELSE LET written == IF FileWritten(failAt)
                           THEN files \cup { FileLocation(s, u) }
                           ELSE files
            IN  /\ IF ReachedRegister(failAt)
                   THEN RegisterSession(u, s)
                   ELSE UNCHANGED << sessions, heap >>
                /\ IF failAt = "none"
                   THEN /\ files' = written
                        /\ upPc' = [ upPc EXCEPT ![u] = "summarizing" ]
                        /\ UNCHANGED upResp
                   ELSE UploadExcept(u, written, FileLocation(s, u))
    /\ UNCHANGED << active_connections, wsPc, wsOpen, wsLocals, inbox, nRecv >>

\* an upload that keeps the dict it built in a local and stores the summary
\* there, not under whatever sessions[session_id] is when the chain returns
UploadSummaryDoneOwnDict(u) ==
    /\ upPc[u] = "summarizing"
    /\ heap' = [ heap EXCEPT ![u].document_summary = SummaryOf(u),
                             ![u].summary_generated = TRUE ]
    /\ upResp' = [ upResp EXCEPT ![u] = 200 ]
    /\ upPc' = [ upPc EXCEPT ![u] = "done" ]
    /\ UNCHANGED << sessions, files, upSid, upFile >>
    /\ UNCHANGED << active_connections, wsPc, wsOpen, wsLocals, inbox, nRecv >>

\* lines 96-103: the summary chain returned
UploadSummaryDone(u) ==
    /\ upPc[u] = "summarizing"
    /\ LET d == sessions[upSid[u]]
       IN  heap' = [ heap EXCEPT ![d].document_summary = SummaryOf(u),
                                 ![d].summary_generated = TRUE ]
    /\ upResp' = [ upResp EXCEPT ![u] = 200 ]
    /\ upPc' = [ upPc EXCEPT ![u] = "done" ]
    /\ UNCHANGED << sessions, files, upSid, upFile >>
    /\ UNCHANGED << active_connections, wsPc, wsOpen, wsLocals, inbox, nRecv >>

\* lines 96, 105-108: the summary chain raised
UploadSummaryFail(u) ==
    /\ upPc[u] = "summarizing"
    /\ UploadExcept(u, files, FileLocation(upSid[u], u))
    /\ UNCHANGED << sessions, heap, upSid, upFile >>
    /\ UNCHANGED << active_connections, wsPc, wsOpen, wsLocals, inbox, nRecv >>

Upload(U) ==
    \/ \E u \in U, s \in SessionIds, f \in Filenames, failAt \in FailPoints :
          UploadStart(u, s, f, failAt)
    \/ \E u \in U : UploadSummaryDone(u)
    \/ \E u \in U : UploadSummaryFail(u)

\* ------------------------------------------------------ WebSocketManager

\* A delivered text frame: the text, and (for the record) the endpoint
\* coroutine that issued the send and why.
Msg(text, by, kind) == [ text |-> text, by |-> by, kind |-> kind ]

\* Endpoint positions after websocket_endpoint has returned or raised; the
\* server then closes the connection.
Ended == { "closed", "failed", "crashed" }

\* The connection can still carry a frame to its peer
Live(c) == wsOpen[c] /\ wsPc[c] \notin Ended

\* disconnect that looks the connection up under the wrong key and so
\* removes nothing
DisconnectNothing(reg, s) == reg

\* lines 123-126: WebSocketManager.disconnect
Disconnect(reg, s) == IF reg[s] # NoConn THEN [ reg EXCEPT ![s] = NoConn ] ELSE reg

\* lines 128-130: the frame reaches the peer of the connection registered for s,
\* if there is one and it can still carry it
Deliver(ib, reg, s, m) ==
    IF reg[s] # NoConn /\ Live(reg[s])
    THEN [ ib EXCEPT ![reg[s]] = Append(@, m) ]
    ELSE ib

\* lines 128-130: how send_personal_message can end.  With nothing registered
\* line 129 skips the send.  send_text on a connection that cannot carry the
\* frame returns, raises WebSocketDisconnect or raises another exception,
\* depending on the server library.
SendOutcomes(reg, s) ==
    IF reg[s] = NoConn THEN { "ok" }
    ELSE IF Live(reg[s]) THEN { "ok" }
    ELSE { "ok", "disconnect", "error" }

\* ---------------------------------------------------- websocket_endpoint

RECURSIVE SumOver(_, _)
SumOver(f, S) ==
    IF S = {} THEN 0
    ELSE LET x == CHOOSE y \in S : TRUE IN f[x] + SumOver(f, S \ {x})

\* a client opens /ws/{session_id}: line 141 calls connect, which suspends
\* in accept (line 115)
ConnOpen(c, s) ==
    /\ wsPc[c] = "idle"
    /\ \A x \in Earlier(c) : wsPc[x] # "idle"
    /\ Cardinality(Arrived) < MaxRequests
    /\ Earlier(s) \subseteq UsedSessionIds
    /\ wsPc' = [ wsPc EXCEPT ![c] = "accepting" ]
    /\ wsSid' = [ wsSid EXCEPT ![c] = s ]
    /\ wsOpen' = [ wsOpen EXCEPT ![c] = TRUE ]
    /\ UNCHANGED << sessions, heap, files, upVars, active_connections,
                    wsData, wsSession, wsSeen, wsPrev, wsResult, inbox, nRecv >>

\* the peer goes away (closes, or the network drops)
PeerClose(c) ==
    /\ wsPc[c] \in { "greeted", "receive", "invoking" }
    /\ wsOpen[c]
    /\ wsOpen' = [ wsOpen EXCEPT ![c] = FALSE ]
    /\ UNCHANGED << sessions, heap, files, upVars, active_connections,
                    wsPc, wsLocals, inbox, nRecv >>

\* a send_personal_message inside connect and what follows it: position
\* `then`, or the exception leaves websocket_endpoint (line 141 is outside
\* the try)
ConnectSend(c, reg, text, outcome, then) ==
    /\ outcome \in SendOutcomes(reg, wsSid[c])
    /\ inbox' = Deliver(inbox, reg, wsSid[c], Msg(text, c, "auto"))
    /\ wsPc' = [ wsPc EXCEPT ![c] = IF outcome = "ok" THEN then ELSE "crashed" ]

\* lines 116-120: accept returned; register, check for a summary, send the
\* greeting
ConnRegister(c, outcome) ==
    /\ wsPc[c] = "accepting"
    /\ LET s   == wsSid[c]
           reg == [ active_connections EXCEPT ![s] = c ]
       IN  /\ active_connections' = reg
           /\ IF HasSummary(s)
              THEN /\ wsSeen' = [ wsSeen EXCEPT ![c] = heap[sessions[s]].document_summary ]
                   /\ ConnectSend(c, reg, Greeting, outcome, "greeted")
              ELSE /\ outcome = "ok"
                   /\ wsSeen' = [ wsSeen EXCEPT ![c] = NoSummary ]
                   /\ wsPc' = [ wsPc EXCEPT ![c] = "receive" ]
                   /\ UNCHANGED inbox
    /\ UNCHANGED << sessions, heap, files, upVars, wsOpen,
                    wsSid, wsData, wsSession, wsPrev, wsResult, nRecv >>

\* line 121: the greeting's send returned; look the summary up again and send
\* it.  The lookup raises KeyError when the dict now under the session id has
\* no "document_summary" key.
ConnSendSummary(c, outcome) ==
    /\ wsPc[c] = "greeted"
    /\ IF ~HasSummary(wsSid[c])
       THEN /\ outcome = "error"
            /\ wsPc' = [ wsPc EXCEPT ![c] = "crashed" ]
            /\ UNCHANGED inbox
       ELSE ConnectSend(c, active_connections,
                        heap[sessions[wsSid[c]]].document_summary, outcome, "receive")
    /\ UNCHANGED << sessions, heap, files, upVars, active_connections, wsOpen,
                    wsLocals, nRecv >>

\* lines 171-172: except WebSocketDisconnect
EndpointDisconnected(c) ==
    /\ active_connections' = Disconnect(active_connections, wsSid[c])
    /\ wsPc' = [ wsPc EXCEPT ![c] = "closed" ]

\* lines 173-175: except Exception; ib is the inbox so far in this step
EndpointFailed(c, e, ib) ==
    /\ inbox' = Deliver(ib, active_connections, wsSid[c], Msg(Diagnostic(e), c, "diag"))
    /\ wsPc' = [ wsPc EXCEPT ![c] = "failed" ]
    /\ UNCHANGED active_connections

\* a send_personal_message inside the loop (lines 148, 169) and what follows
\* it: the next receive_text (line 144), or one of the except clauses
LoopSend(c, text, outcome) ==
    LET s  == wsSid[c]
        ib == Deliver(inbox, active_connections, s, Msg(text, c, "reply"))
    IN  /\ outcome \in SendOutcomes(active_connections, s)
        /\ CASE outcome = "ok" ->
                    /\ inbox' = ib
                    /\ wsPc' = [ wsPc EXCEPT ![c] = "receive" ]
                    /\ UNCHANGED active_connections
             [] outcome = "disconnect" ->
                    /\ inbox' = ib
                    /\ EndpointDisconnected(c)
             [] outcome = "error" ->
                    \E e \in Errors : EndpointFailed(c, e, ib)

\* lines 147-152 without the continue of line 152: line 155 then raises
\* KeyError, which the except clause of line 173 catches
ReceiveNoSessionNoContinue(c, outcome) ==
    LET s  == wsSid[c]
        ib == Deliver(inbox, active_connections, s, Msg(NoSessionError, c, "reply"))
    IN  /\ outcome \in SendOutcomes(active_connections, s)
        /\ IF outcome = "disconnect"
           THEN inbox' = ib /\ EndpointDisconnected(c)
           ELSE \E e \in Errors : EndpointFailed(c, e, ib)
        /\ UNCHANGED << heap, wsData, wsSession, wsPrev >>

\* lines 147-152: no session under the id
ReceiveNoSession(c, outcome) ==
    /\ LoopSend(c, NoSessionError, outcome)
    /\ UNCHANGED << heap, wsData, wsSession, wsPrev >>

\* lines 154-162: append the user turn and call the chain
ReceiveQuestion(c, q) ==
    /\ wsData' = [ wsData EXCEPT ![c] = q ]
    /\ wsSession' = [ wsSession EXCEPT ![c] = sessions[wsSid[c]] ]
    /\ wsPrev' = [ wsPrev EXCEPT ![c] = HistoryOf(wsSid[c]) ]
    /\ heap' = [ heap EXCEPT ![sessions[wsSid[c]]].chat_history =
                                Append(@, Turn("user", q)) ]
    /\ wsPc' = [ wsPc EXCEPT ![c] = "invoking" ]
    /\ UNCHANGED << active_connections, inbox >>

\* a read loop that hands each message to a task of its own and goes back to
\* receive_text: the next frame is read while the chain call is in flight
ConnReceiveWhileInvoking(c, q, outcome) ==
    /\ wsPc[c] \in { "receive", "invoking" }
    /\ wsOpen[c]
    /\ SumOver(nRecv, Conns) < MaxQuestions
    /\ q = "q1" \/ SumOver(nRecv, Conns) > 0
    /\ nRecv' = [ nRecv EXCEPT ![c] = @ + 1 ]
    /\ IF sessions[wsSid[c]] = NoEntry
       THEN ReceiveNoSession(c, outcome)
       ELSE outcome = "ok" /\ ReceiveQuestion(c, q)
    /\ UNCHANGED << sessions, files, upVars, wsOpen, wsSid, wsSeen, wsResult >>

\* lines 144-162: a text frame arrived
ConnReceive(c, q, outcome) ==
    /\ wsPc[c] = "receive"
    /\ wsOpen[c]
    /\ SumOver(nRecv, Conns) < MaxQuestions
    /\ q = "q1" \/ SumOver(nRecv, Conns) > 0
    /\ nRecv' = [ nRecv EXCEPT ![c] = @ + 1 ]
    /\ IF sessions[wsSid[c]] = NoEntry
       THEN ReceiveNoSession(c, outcome)
       ELSE outcome = "ok" /\ ReceiveQuestion(c, q)
    /\ UNCHANGED << sessions, files, upVars, wsOpen, wsSid, wsSeen, wsResult >>

\* lines 162-165: the answer of the chain, or the synthetic answer
AiAnswer(chain, question, result) ==
    IF result = "ok" THEN AnswerOf(chain, question) ELSE SyntheticAnswer(result)

\* lines 162-169 without the try of lines 161-165: an exception of the chain
\* reaches the except clause of line 173
ConnAnswerNoTry(c, result, outcome) ==
    /\ wsPc[c] = "invoking"
    /\ IF result = "ok"
       THEN LET ai_answer == AnswerOf(heap[wsSession[c]].conversation_chain, wsData[c])
            IN  /\ heap' = [ heap EXCEPT ![wsSession[c]].chat_history =
                                            Append(@, Turn("ai", ai_answer)) ]
                /\ LoopSend(c, ai_answer, outcome)
       ELSE /\ outcome = "error"
            /\ EndpointFailed(c, result, inbox)
            /\ UNCHANGED heap
    /\ wsResult' = [ wsResult EXCEPT ![c] = result ]
    /\ wsData' = [ wsData EXCEPT ![c] = NoValue ]
    /\ wsSession' = [ wsSession EXCEPT ![c] = NoValue ]
    /\ wsPrev' = [ wsPrev EXCEPT ![c] = << >> ]
    /\ UNCHANGED << sessions, files, upVars, wsOpen, wsSid, wsSeen, nRecv >>

\* lines 162-169: the chain returned or raised (result is "ok" or str(e))
ConnAnswer(c, result, outcome) ==
    /\ wsPc[c] = "invoking"
    /\ LET ai_answer == AiAnswer(heap[wsSession[c]].conversation_chain, wsData[c], result)
       IN  /\ heap' = [ heap EXCEPT ![wsSession[c]].chat_history =
                                       Append(@, Turn("ai", ai_answer)) ]
           /\ LoopSend(c, ai_answer, outcome)
    /\ wsResult' = [ wsResult EXCEPT ![c] = result ]
    \* data, session_data and chat_history are dead from here on: the next
    \* iteration assigns them before it reads them
    /\ wsData' = [ wsData EXCEPT ![c] = NoValue ]
    /\ wsSession' = [ wsSession EXCEPT ![c] = NoValue ]
    /\ wsPrev' = [ wsPrev EXCEPT ![c] = << >> ]
    /\ UNCHANGED << sessions, files, upVars, wsOpen, wsSid, wsSeen, nRecv >>

\* lines 144, 171-172: receive_text raised WebSocketDisconnect
ConnDisconnect(c) ==
    /\ wsPc[c] = "receive"
    /\ ~wsOpen[c]
    /\ EndpointDisconnected(c)
    /\ UNCHANGED << sessions, heap, files, upVars, wsOpen, wsLocals, inbox, nRecv >>

\* lines 144, 173-175: receive_text raised another exception (the frame read
\* was not a text frame)
ConnReceiveError(c, e) ==
    /\ wsPc[c] = "receive"
    /\ wsOpen[c]
    /\ EndpointFailed(c, e, inbox)
    /\ UNCHANGED << sessions, heap, files, upVars, wsOpen, wsLocals, nRecv >>

SendResults == { "ok", "disconnect", "error" }

Endpoint(C) ==
    \/ \E c \in C, s \in SessionIds : ConnOpen(c, s)
    \/ \E c \in C : PeerClose(c)
    \/ \E c \in C, o \in SendResults : ConnRegister(c, o)
    \/ \E c \in C, o \in SendResults : ConnSendSummary(c, o)
    \/ \E c \in C, q \in Questions, o \in SendResults : ConnReceive(c, q, o)
    \/ \E c \in C, r \in { "ok" } \cup Errors, o \in SendResults : ConnAnswer(c, r, o)
    \/ \E c \in C : ConnDisconnect(c)
    \/ \E c \in C, e \in Errors : ConnReceiveError(c, e)

\* ---------------------------------------------------------- specifications

\* Any MaxRequests of the upload requests and connections
Next == Upload(Uploads) \/ Endpoint(Conns)

Spec == Init /\ [][Next]_vars

\* Both upload requests and one connection
NextUploads == Upload(Uploads) \/ Endpoint({"c1"})

SpecUploads == Init /\ [][NextUploads]_vars

\* One upload request and both connections
NextConns == Upload({"u1"}) \/ Endpoint(Conns)

SpecConns == Init /\ [][NextConns]_vars

\* ------------------------------------------------------------------ claims

\* f is some prefix followed by ".pdf"
HasPdfExtension(f) == \E n \in 0..Len(f) : f = SubSeq(f, 1, n) \o PdfExt

\* C1: an upload whose filename does not end in ".pdf" is answered 400 in the
\* step in which it arrives, and that step changes neither the Session Store
\* (the mapping and the dicts it refers to) nor the files under the upload
\* directory.
C1_RejectedUploadChangesNothing ==
    [][ \A u \in Uploads :
          ( upPc[u] = "idle" /\ upPc'[u] # "idle" /\ ~HasPdfExtension(upFile'[u]) )
             => /\ upResp'[u] = 400
                /\ upPc'[u] = "done"
                /\ sessions' = sessions
                /\ heap' = heap
                /\ files' = files ]_vars

\* C1 witness: an upload was rejected with 400 for an identifier that has a
\* session entry, with files present in the upload directory.
C1_Witness ==
    \E u \in Uploads :
        /\ upResp[u] = 400
        /\ sessions[upSid[u]] # NoEntry
        /\ files # {}

\* C2: when an upload returns 200 for identifier S, the Session Store holds an
\* entry for S whose chat_history is empty and whose document_summary is the
\* summary that upload generated.
C2_SuccessLeavesFreshEntry ==
    [][ \A u \in Uploads :
          ( upResp[u] # 200 /\ upResp'[u] = 200 )
             => /\ sessions'[upSid[u]] # NoEntry
                /\ heap'[sessions'[upSid[u]]].chat_history = << >>
                /\ heap'[sessions'[upSid[u]]].document_summary = SummaryOf(u) ]_vars

\* C3: an upload that ended with 500 has registered no session: the dict it
\* built is not in the Session Store.
C3_FailedUploadRegistersNothing ==
    \A u \in Uploads : upResp[u] = 500 => \A s \in SessionIds : sessions[s] # u

\* The frames in the inbox of connection `to` that the connect of `by` sent
AutoFrom(by, to) == SelectSeq(inbox[to], LAMBDA m : m.by = by /\ m.kind = "auto")

\* C4: a connection whose connect found a summary, whose connect is over and
\* whose peer is still there has not failed in connect, has received from it
\* exactly the greeting and then the summary found, and no other connection
\* has received a frame of that connect.
C4_ConnectGreetsThenSummarises ==
    \A c \in Conns :
        ( /\ wsSeen[c] \notin { Unset, NoSummary }
          /\ wsPc[c] \notin { "idle", "accepting", "greeted" }
          /\ wsOpen[c] )
           => /\ wsPc[c] # "crashed"
              /\ AutoFrom(c, c) = << Msg(Greeting, c, "auto"), Msg(wsSeen[c], c, "auto") >>
              /\ \A o \in Conns \ {c} : AutoFrom(c, o) = << >>

\* C5: a connection whose connect found no summary receives only frames that
\* its own endpoint sent from its read loop: no greeting, no summary, and no
\* frame another connection's endpoint sent.
C5_NoSummaryNoForeignFrames ==
    \A c \in Conns :
        wsSeen[c] = NoSummary
           => \A i \in DOMAIN inbox[c] :
                  /\ inbox[c][i].by = c
                  /\ inbox[c][i].kind \in { "reply", "diag" }

\* C6: when the handling of question Q on a connection for S completes, the
\* turn sequence under sessions[S] is the one that was there when Q was read,
\* followed by the user turn for Q and the ai turn for the answer.
C6_QuestionAddsTwoTurns ==
    [][ \A c \in Conns :
          ( wsPc[c] = "invoking" /\ wsPc'[c] # "invoking" )
             => /\ sessions'[wsSid[c]] # NoEntry
                /\ heap'[sessions'[wsSid[c]]].chat_history =
                      wsPrev[c] \o
                        << Turn("user", wsData[c]),
                           Turn("ai", AiAnswer(heap[wsSession[c]].conversation_chain,
                                               wsData[c], wsResult'[c])) >> ]_vars

\* The connection registered for s can carry a frame
Carried(s) ==
    /\ active_connections[s] # NoConn
    /\ wsOpen[active_connections[s]]
    /\ wsPc[active_connections[s]] \notin Ended

\* The inbox after `m` was sent to the connection registered for s
InboxAfter(s, m) ==
    IF Carried(s)
    THEN [ inbox EXCEPT ![active_connections[s]] = Append(@, m) ]
    ELSE inbox

IssuesSend(c) ==
    \/ wsPc[c] = "invoking" /\ wsPc'[c] # "invoking"
    \/ nRecv'[c] # nRecv[c] /\ sessions[wsSid[c]] = NoEntry
    \/ wsPc[c] = "greeted" /\ wsPc'[c] # "greeted" /\ HasSummary(wsSid[c])

\* C8: the step in which an endpoint handles WebSocketDisconnect leaves its
\* identifier out of the registry and the other identifiers as they were (so
\* a disconnect for an identifier that is not registered changes nothing); a
\* send_personal_message for an identifier that is not registered delivers no
\* frame and does not raise.
C8_DisconnectDeregistersSendToAbsentIsNoOp ==
    [][ \A c \in Conns :
          /\ ( wsPc[c] # "closed" /\ wsPc'[c] = "closed" )
                => /\ active_connections'[wsSid[c]] = NoConn
                   /\ \A x \in SessionIds \ { wsSid[c] } :
                          active_connections'[x] = active_connections[x]
          /\ ( IssuesSend(c) /\ active_connections[wsSid[c]] = NoConn )
                => inbox' = inbox /\ wsPc'[c] = "receive"
          /\ ( wsPc[c] # "failed" /\ wsPc'[c] = "failed"
               /\ active_connections[wsSid[c]] = NoConn )
                => inbox' = inbox ]_vars

\* C8 witness: of two connections for one identifier, one has handled its
\* peer's close; the identifier is not registered; the other has read a frame,
\* no frame it sent has reached anyone, and it is at receive_text.
C8_Witness ==
    \E c \in Conns, o \in Conns :
        /\ c # o
        /\ wsPc[c] = "closed"
        /\ wsPc[o] = "receive"
        /\ wsSid[o] = wsSid[c]
        /\ active_connections[wsSid[c]] = NoConn
        /\ wsOpen[o]
        /\ nRecv[o] >= 1
        /\ \A x \in Conns : \A i \in DOMAIN inbox[x] : inbox[x][i].by # o

\* C9: an endpoint that ended in the except clause of line 173 has left the
\* registry without an entry mapping its identifier to its connection.
C9_FailedEndpointIsDeregistered ==
    \A c \in Conns : wsPc[c] = "failed" => active_connections[wsSid[c]] # c

C11_FailedUploadRemovesOnlyItsFile ==
    [][ \A u \in Uploads :
          (upResp[u] # 500 /\ upResp'[u] = 500)
              => LET loc == FileLocation(upSid'[u], u)
                 IN  /\ loc \notin files'
                     /\ files' \ {loc} = files \ {loc} ]_vars

\* An upload failed after it had written its file and registered, while the
\* file of an earlier upload for the same identifier is still stored.
C11_Witness ==
    \E u \in Uploads, o \in Uploads :
        /\ o # u
        /\ upResp[u] = 500
        /\ sessions[upSid[u]] = u
        /\ upPc[o] # "idle"
        /\ upSid[o] = upSid[u]
        /\ FileLocation(upSid[o], o) \in files
        /\ FileLocation(upSid[u], u) \notin files

\* The reply frames issued by endpoint `by` that reached connection `to`
RepliesFrom(by, to) == SelectSeq(inbox[to], LAMBDA m : m.by = by /\ m.kind = "reply")

\* C12: on one connection the handling is sequential.  A frame is read only
\* by an endpoint that is at receive_text with no question pending, so never
\* while its chain call is in flight, and one frame at a time; the step that
\* ends a chain call appends the ai turn and issues the send of that answer
\* before anything else is read.
C12_HandlingIsSequential ==
    [][ \A c \in Conns :
          /\ nRecv'[c] # nRecv[c]
                => /\ wsPc[c] = "receive"
                   /\ wsData[c] = NoValue
                   /\ nRecv'[c] = nRecv[c] + 1
          /\ wsPc[c] = "invoking" => nRecv'[c] = nRecv[c]
          /\ ( wsPc[c] = "invoking" /\ wsPc'[c] # "invoking" )
                => LET h == heap'[wsSession[c]].chat_history
                   IN  /\ h[Len(h)].role = "ai"
                       /\ inbox' = InboxAfter(wsSid[c], Msg(h[Len(h)].content, c, "reply"))
                       /\ wsData'[c] = NoValue ]_vars

\* A connection has read its second question, after the reply to its first
\* one reached it, and the chain call for the second is in flight.
C12_Witness ==
    \E c \in Conns :
        /\ nRecv[c] = 2
        /\ wsPc[c] = "invoking"
        /\ wsData[c] \in Questions
        /\ Len(RepliesFrom(c, c)) = 1

\* C13: the step that ends a chain call of connection c, whose peer is still
\* there, delivers the answer to c once and to nobody else: the answer is
\* appended to what c has received, and what the other connections have
\* received is as it was.
C13_AnswerReachesItsOwnConnection ==
    [][ \A c \in Conns :
          ( wsPc[c] = "invoking" /\ wsPc'[c] # "invoking" /\ wsOpen[c] )
              => LET h == heap'[wsSession[c]].chat_history
                 IN  inbox' = [ inbox EXCEPT
                                  ![c] = Append(@, Msg(h[Len(h)].content, c, "reply")) ] ]_vars

\* C14: every turn sequence is a run of user turns each immediately followed
\* by its ai turn, with at most one unanswered user turn at the end: the odd
\* positions hold user turns and the even positions ai turns, so two user
\* turns are never adjacent.
C14_TurnsAlternate ==
    \A d \in DOMAIN heap :
        LET h == heap[d].chat_history
        IN  \A i \in 1..Len(h) : h[i].role = IF i % 2 = 1 THEN "user" ELSE "ai"

\* C15: the session is registered as the last step of the upload, after the
\* summary is there: every entry of the Session Store has a summary.
C15_EveryEntryHasSummary ==
    \A s \in SessionIds :
        sessions[s] # NoEntry => heap[sessions[s]].document_summary # NoSummary

\* C16: an upload that returns success stores its summary in the record that
\* is under its identifier when its summary chain returns, whichever upload
\* built that record, and leaves the rest of that record (document path,
\* index, chain) and every other record as they are; the last completed
\* write wins.  Two overlapping uploads for one identifier can therefore both
\* succeed and leave a record that mixes the two (C16_Witness).
C16_SummaryGoesToWhateverIsRegistered ==
    [][ \A u \in Uploads :
          ( upResp[u] # 200 /\ upResp'[u] = 200 )
              => LET d == sessions[upSid[u]]
                 IN  /\ sessions' = sessions
                     /\ heap' = [ heap EXCEPT
                                    ![d] = [ doc_path           |-> heap[d].doc_path,
                                             vectorstore        |-> heap[d].vectorstore,
                                             conversation_chain |-> heap[d].conversation_chain,
                                             chat_history       |-> heap[d].chat_history,
                                             summary_generated  |-> TRUE,
                                             document_summary   |-> SummaryOf(u) ] ] ]_vars

\* Both uploads for one identifier have returned success, and the entry
\* holds the document path, index and chain of one upload with the summary
\* of the other.
C16_Witness ==
    \E u \in Uploads, o \in Uploads, s \in SessionIds :
        /\ u # o
        /\ upSid[u] = s /\ upSid[o] = s
        /\ upResp[u] = 200 /\ upResp[o] = 200
        /\ upPc[u] = "done" /\ upPc[o] = "done"
        /\ sessions[s] = o
        /\ heap[o].doc_path = FileLocation(s, o)
        /\ heap[o].vectorstore = o
        /\ heap[o].conversation_chain = o
        /\ heap[o].document_summary = SummaryOf(u)
        /\ SummaryOf(u) # SummaryOf(o)

\* C17: a disconnect removes only the registration of its own connection:
\* when the endpoint of a connection that is not the one registered for its
\* identifier (it was displaced by a later connection) handles
\* WebSocketDisconnect, the registry is left as it was.
C17_DisconnectRemovesOnlyItsOwn ==
    [][ \A c \in Conns :
          ( /\ wsPc[c] # "closed" /\ wsPc'[c] = "closed"
            /\ active_connections[wsSid[c]] # c )
              => active_connections' = active_connections ]_vars

\* C18: in every session dict, summary_generated is true exactly when the
\* dict has a document_summary; no interleaving shows the flag set without
\* the summary or the summary stored without the flag.
C18_FlagIffSummary ==
    \A d \in DOMAIN heap :
        heap[d].summary_generated <=> heap[d].document_summary # NoSummary

\* Two uploads for one identifier overlapped: the registered dict has the
\* summary and the flag, the dict it replaced has neither, and a connection
\* is open on the identifier.
C18_Witness ==
    \E u \in Uploads, o \in Uploads, s \in SessionIds :
        /\ u # o
        /\ {u, o} \subseteq DOMAIN heap
        /\ sessions[s] = o
        /\ upSid[u] = s
        /\ heap[o].summary_generated /\ heap[o].document_summary # NoSummary
        /\ ~heap[u].summary_generated /\ heap[u].document_summary = NoSummary
        /\ upPc[u] = "done"
        /\ \E c \in Conns : wsSid[c] = s /\ wsPc[c] = "receive"

====
